---- MODULE Spec2Model ----
(***************************************************************************)
(* Model of the adversarial training script main.py: start-up (output      *)
(* directory, logging, fixed noise), the per-batch discriminator and       *)
(* generator updates, the periodic image snapshots and the end-of-epoch    *)
(* checkpoints.  Tensors, losses and gradients are modelled by their       *)
(* provenance: which input, which parameter version, which batch.          *)
(***************************************************************************)
EXTENDS Integers, Sequences, FiniteSets, TLC

\* ------------------------------------------------------------------ bounds
MaxEpochs == 2
MaxBatches == 201
NumNoise == 2

\* ------------------------------------------------------- program constants
SnapshotInterval == 100
real_label == 1
fake_label == 0

Noise == 1..NumNoise
EpochChoices == 0..MaxEpochs
BatchChoices == {0, 1, SnapshotInterval, SnapshotInterval + 1, MaxBatches}

VARIABLES
  pc,            \* next statement of the script
  niter,         \* opt.niter
  nbatches,      \* len(dataloader)
  epoch, i,      \* loop variables
  outdir,        \* "absent" | "present": state of opt.outf on disk
  mkdirFailed,   \* os.makedirs raised OSError (swallowed)
  fixed_noise,   \* 0 before line 114, then the drawn value
  paramsD, paramsG,    \* parameter versions of netD / netG
  gradD, gradG,        \* accumulated .grad of netD / netG parameters
  lastAppliedD, lastAppliedG,  \* gradient consumed by the last optimizer step
  appliedKindsD,       \* kinds of loss whose gradient optimizerD ever applied
  noise, fake, label, output,
  errD_real, errD_fake, errD, errG,
  D_x, D_G_z1, D_G_z2,
  lastLog,       \* last per-batch log line
  files,         \* artifact files under opt.outf: name -> content
  failedWrite,   \* name of the write that raised, "none" otherwise
  nanSeen,       \* some loss value was NaN/Inf
  phases,        \* phases performed so far in the current batch
  gFwd,          \* training forward passes of netG in the current batch
  fakeScores,    \* netD forward passes on generated data in the current batch
  snapBatches    \* batch indices of this epoch at which a snapshot was taken

vars == <<pc, niter, nbatches, epoch, i, outdir, mkdirFailed, fixed_noise,
          paramsD, paramsG, gradD, gradG, lastAppliedD, lastAppliedG,
          appliedKindsD, noise, fake, label, output, errD_real, errD_fake,
          errD, errG, D_x, D_G_z1, D_G_z2, lastLog, files, failedWrite,
          nanSeen, phases, gFwd, fakeScores, snapBatches>>

\* ----------------------------------------------------------------- tensors
NoTensor == [src |-> "none", noise |-> 0, gver |-> 0, attached |-> FALSE]
NoOut == [input |-> NoTensor, dver |-> 0]
NoLoss == [kind |-> "none", out |-> NoOut]
NoProxy == [of |-> NoOut]

\* data[0].to(device): a real batch, no autograd history
RealBatch == [src |-> "data", noise |-> 0, gver |-> 0, attached |-> FALSE]

\* netG(z): output depends on z and the current generator parameters and
\* carries autograd history back to them
NetG(z) == [src |-> "gen", noise |-> z, gver |-> paramsG, attached |-> TRUE]

\* variant: detach() that keeps the autograd history
DetachNoop(t) == t

\* tensor.detach(): same values, autograd history severed
Detach(t) == [t EXCEPT !.attached = FALSE]

\* netD(x): score under the current discriminator parameters
NetD(x) == [input |-> x, dver |-> paramsD]

\* gradient contribution of one backward pass of the current batch
Tok(kind) == [loss |-> kind, epoch |-> epoch, batch |-> i]

\* loss.backward(): what is accumulated on netD / netG parameter gradients
BackwardD(loss) == gradD \cup {Tok(loss.kind)}
BackwardG(loss) ==
  IF loss.out.input.attached THEN gradG \cup {Tok(loss.kind)} ELSE gradG

\* torch.where(output > 0.5, 1., 0.).mean().item(): a number derived from
\* the score only
Proxy(out) == [of |-> out]

\* --------------------------------------------------------------- file names
DigitChar(d) ==
  CASE d = 0 -> "0" [] d = 1 -> "1" [] d = 2 -> "2" [] d = 3 -> "3"
    [] d = 4 -> "4" [] d = 5 -> "5" [] d = 6 -> "6" [] d = 7 -> "7"
    [] d = 8 -> "8" [] d = 9 -> "9"

RECURSIVE Digits(_)
\* '%d' % n for n >= 0
Digits(n) == IF n < 10 THEN <<DigitChar(n)>>
             ELSE Digits(n \div 10) \o <<DigitChar(n % 10)>>

RECURSIVE PadLeft(_, _)
PadLeft(s, w) == IF Len(s) >= w THEN s ELSE PadLeft(<<"0">> \o s, w)

\* '%03d' % n
Digits03(n) == PadLeft(Digits(n), 3)

\* variant: generated-grid name without the epoch
FakeSamplesNameNoEpoch(e, b) == <<"fake_samples.png">>

\* variant: checkpoint name without the epoch
CkptNameNoEpoch(net, e) == <<net, ".pth">>

RealSamplesName(e, b) == <<"real_samples.png">>
FakeSamplesName(e, b) == <<"fake_samples_epoch_">> \o Digits03(e) \o <<".png">>
CkptName(net, e) == <<net, "_epoch_">> \o Digits(e) \o <<".pth">>

Content(kind, ver, z) ==
  [kind |-> kind, epoch |-> epoch, batch |-> i, ver |-> ver, noise |-> z]

WriteFile(fs, name, c) ==
  [n \in (DOMAIN fs) \cup {name} |-> IF n = name THEN c ELSE fs[n]]

\* --------------------------------------------------------------- control
\* variant: snapshot at the last batch of each interval
SnapshotDueLast(b) == b % SnapshotInterval = SnapshotInterval - 1

\* i % 100 == 0
SnapshotDue(b) == b % SnapshotInterval = 0

\* where the script continues once batch b of epoch e is finished
AfterBatch == IF i + 1 < nbatches THEN "zeroD" ELSE "ckptG"

\* entering an epoch: first batch, or straight to checkpointing when the
\* dataloader is empty
EpochEntry(e) ==
  IF e >= niter THEN "done" ELSE IF nbatches = 0 THEN "ckptG" ELSE "zeroD"

\* variant: optimizerD.step() left out
NextPcSkipStepD(p) ==
  CASE p = "zeroD"   -> "realBwd"
    [] p = "realBwd" -> "Dx"
    [] p = "Dx"      -> "genFwd"
    [] p = "genFwd"  -> "fakeBwd"
    [] p = "fakeBwd" -> "DGz1"
    [] p = "DGz1"    -> "sumD"
    [] p = "sumD"    -> "zeroG"
    [] p = "stepD"   -> "zeroG"
    [] p = "zeroG"   -> "genBwd"
    [] p = "genBwd"  -> "DGz2"
    [] p = "DGz2"    -> "stepG"
    [] p = "stepG"   -> "log"

\* statement order inside one batch (lines 128-177)
NextPc(p) ==
  CASE p = "zeroD"   -> "realBwd"
    [] p = "realBwd" -> "Dx"
    [] p = "Dx"      -> "genFwd"
    [] p = "genFwd"  -> "fakeBwd"
    [] p = "fakeBwd" -> "DGz1"
    [] p = "DGz1"    -> "sumD"
    [] p = "sumD"    -> "stepD"
    [] p = "stepD"   -> "zeroG"
    [] p = "zeroG"   -> "genBwd"
    [] p = "genBwd"  -> "DGz2"
    [] p = "DGz2"    -> "stepG"
    [] p = "stepG"   -> "log"

Init ==
  /\ pc = "makedirs"
  /\ niter \in EpochChoices
  /\ nbatches \in BatchChoices
  /\ epoch = 0 /\ i = 0
  /\ outdir \in {"absent", "present"}
  /\ mkdirFailed = FALSE
  /\ fixed_noise = 0
  /\ paramsD = 0 /\ paramsG = 0
  /\ gradD = {} /\ gradG = {}
  /\ lastAppliedD = {} /\ lastAppliedG = {}
  /\ appliedKindsD = {}
  /\ noise = 0 /\ fake = NoTensor /\ label = real_label /\ output = NoOut
  /\ errD_real = NoLoss /\ errD_fake = NoLoss /\ errG = NoLoss
  /\ errD = [real |-> NoLoss, fake |-> NoLoss]
  /\ D_x = NoProxy /\ D_G_z1 = NoProxy /\ D_G_z2 = NoProxy
  /\ lastLog = [epoch |-> 0, batch |-> 0, z1 |-> NoProxy, z2 |-> NoProxy]
  /\ files = [n \in {} |-> 0]
  /\ failedWrite = "none"
  /\ nanSeen = FALSE
  /\ phases = <<>>
  /\ gFwd = 0
  /\ fakeScores = <<>>
  /\ snapBatches = {}

envV == <<niter, nbatches>>
startV == <<outdir, mkdirFailed, fixed_noise>>
loopV == <<epoch, i>>
netV == <<paramsD, paramsG, gradD, gradG, lastAppliedD, lastAppliedG,
          appliedKindsD>>
tmpV == <<noise, fake, label, output>>
lossV == <<errD_real, errD_fake, errD, errG>>
proxV == <<D_x, D_G_z1, D_G_z2, lastLog>>
fileV == <<files, failedWrite>>
histV == <<phases, gFwd, fakeScores, snapBatches>>

\* ---------------------------------------------------------------- start-up
\* try: os.makedirs(opt.outf)  except OSError: pass
Makedirs ==
  /\ pc = "makedirs"
  /\ \/ /\ outdir = "absent"
        /\ outdir' = "present"
        /\ mkdirFailed' = FALSE
     \/ /\ outdir = "absent"          \* e.g. parent not writable
        /\ outdir' = "absent"
        /\ mkdirFailed' = TRUE
     \/ /\ outdir = "present"         \* FileExistsError
        /\ outdir' = "present"
        /\ mkdirFailed' = TRUE
  /\ pc' = "logging"
  /\ UNCHANGED <<envV, loopV, fixed_noise, netV, tmpV, lossV, proxV, fileV,
                 nanSeen, histV>>

\* logging.basicConfig(filename=outf/stdout.log): opens the log file at once
LoggingSetup ==
  /\ pc = "logging"
  /\ IF outdir = "present"
       THEN pc' = "setup" /\ failedWrite' = failedWrite
       ELSE pc' = "error" /\ failedWrite' = "stdout.log"
  /\ UNCHANGED <<envV, loopV, startV, netV, tmpV, lossV, proxV, files,
                 nanSeen, histV>>

\* seeds, dataset, networks, criterion, fixed_noise, optimizers
Setup ==
  /\ pc = "setup"
  /\ \E z \in Noise : fixed_noise' = z
  /\ pc' = EpochEntry(0)
  /\ UNCHANGED <<envV, loopV, outdir, mkdirFailed, netV, tmpV, lossV, proxV,
                 fileV, nanSeen, histV>>

\* ------------------------------------------------------ optimizer, autograd
\* variant: netD.zero_grad() that clears nothing
netD_zero_gradKeep(g) == g

\* Module.zero_grad()
netD_zero_grad(g) == {}
netG_zero_grad(g) == {}

\* Optimizer.step(): a new parameter version
AdamStep(p) == p + 1

\* the tensor netD scores in the discriminator's fake pass: fake.detach()
FakeForD(f) == Detach(f)

\* variant: the generator's pass also scores a detached copy
FakeForGDetached(f) == [f EXCEPT !.attached = FALSE]

\* the tensor netD scores in the generator's pass: fake itself
FakeForG(f) == f

\* variant: the generator's pass reuses the previous score
RescoreFakeStale(x) == output

\* output = netD(fake) of the generator's pass
RescoreFake(x) == NetD(x)

\* a loss value may come out NaN/Inf; nothing in the script tests for it
LossComputed ==
  \E bad \in BOOLEAN : nanSeen' = (nanSeen \/ bad)

\* ---------------------------------------------------- (1) update D network
ZeroD ==
  /\ pc = "zeroD"
  /\ gradD' = netD_zero_grad(gradD)
  /\ phases' = Append(phases, "zeroD")
  /\ pc' = NextPc(pc)
  /\ UNCHANGED <<envV, loopV, startV, paramsD, paramsG, gradG, lastAppliedD,
                 lastAppliedG, appliedKindsD, tmpV, lossV, proxV, fileV,
                 nanSeen, gFwd, fakeScores, snapBatches>>

RealBwd ==
  /\ pc = "realBwd"
  /\ label' = real_label
  /\ output' = NetD(RealBatch)
  /\ errD_real' = [kind |-> "real", out |-> output']
  /\ LossComputed
  /\ gradD' = BackwardD(errD_real')
  /\ gradG' = BackwardG(errD_real')
  /\ phases' = Append(phases, "realBwd")
  /\ pc' = NextPc(pc)
  /\ UNCHANGED <<envV, loopV, startV, paramsD, paramsG, lastAppliedD,
                 lastAppliedG, appliedKindsD, noise, fake, errD_fake, errD,
                 errG, proxV, fileV, gFwd, fakeScores, snapBatches>>

Dx ==
  /\ pc = "Dx"
  /\ D_x' = Proxy(output)
  /\ pc' = NextPc(pc)
  /\ UNCHANGED <<envV, loopV, startV, netV, tmpV, lossV, D_G_z1, D_G_z2,
                 lastLog, fileV, nanSeen, histV>>

GenFwd ==
  /\ pc = "genFwd"
  /\ \E z \in Noise : noise' = z
  /\ fake' = NetG(noise')
  /\ label' = fake_label
  /\ gFwd' = gFwd + 1
  /\ pc' = NextPc(pc)
  /\ UNCHANGED <<envV, loopV, startV, netV, output, lossV, proxV, fileV,
                 nanSeen, phases, fakeScores, snapBatches>>

FakeBwd ==
  /\ pc = "fakeBwd"
  /\ output' = NetD(FakeForD(fake))
  /\ errD_fake' = [kind |-> "fake", out |-> output']
  /\ LossComputed
  /\ gradD' = BackwardD(errD_fake')
  /\ gradG' = BackwardG(errD_fake')
  /\ fakeScores' = Append(fakeScores, output')
  /\ phases' = Append(phases, "fakeBwd")
  /\ pc' = NextPc(pc)
  /\ UNCHANGED <<envV, loopV, startV, paramsD, paramsG, lastAppliedD,
                 lastAppliedG, appliedKindsD, noise, fake, label, errD_real,
                 errD, errG, proxV, fileV, gFwd, snapBatches>>

DGz1 ==
  /\ pc = "DGz1"
  /\ D_G_z1' = Proxy(output)
  /\ pc' = NextPc(pc)
  /\ UNCHANGED <<envV, loopV, startV, netV, tmpV, lossV, D_x, D_G_z2,
                 lastLog, fileV, nanSeen, histV>>

SumD ==
  /\ pc = "sumD"
  /\ errD' = [real |-> errD_real, fake |-> errD_fake]
  /\ pc' = NextPc(pc)
  /\ UNCHANGED <<envV, loopV, startV, netV, tmpV, errD_real, errD_fake, errG,
                 proxV, fileV, nanSeen, histV>>

StepD ==
  /\ pc = "stepD"
  /\ paramsD' = AdamStep(paramsD)
  /\ lastAppliedD' = gradD
  /\ appliedKindsD' = appliedKindsD \cup {t.loss : t \in gradD}
  /\ phases' = Append(phases, "stepD")
  /\ pc' = NextPc(pc)
  /\ UNCHANGED <<envV, loopV, startV, paramsG, gradD, gradG, lastAppliedG,
                 tmpV, lossV, proxV, fileV, nanSeen, gFwd, fakeScores,
                 snapBatches>>

\* ---------------------------------------------------- (2) update G network
ZeroG ==
  /\ pc = "zeroG"
  /\ gradG' = netG_zero_grad(gradG)
  /\ phases' = Append(phases, "zeroG")
  /\ pc' = NextPc(pc)
  /\ UNCHANGED <<envV, loopV, startV, paramsD, paramsG, gradD, lastAppliedD,
                 lastAppliedG, appliedKindsD, tmpV, lossV, proxV, fileV,
                 nanSeen, gFwd, fakeScores, snapBatches>>

GenBwd ==
  /\ pc = "genBwd"
  /\ label' = real_label
  /\ output' = RescoreFake(FakeForG(fake))
  /\ errG' = [kind |-> "gen", out |-> output']
  /\ LossComputed
  /\ gradD' = BackwardD(errG')
  /\ gradG' = BackwardG(errG')
  /\ fakeScores' = Append(fakeScores, output')
  /\ phases' = Append(phases, "genBwd")
  /\ pc' = NextPc(pc)
  /\ UNCHANGED <<envV, loopV, startV, paramsD, paramsG, lastAppliedD,
                 lastAppliedG, appliedKindsD, noise, fake, errD_real,
                 errD_fake, errD, proxV, fileV, gFwd, snapBatches>>

DGz2 ==
  /\ pc = "DGz2"
  /\ D_G_z2' = Proxy(output)
  /\ pc' = NextPc(pc)
  /\ UNCHANGED <<envV, loopV, startV, netV, tmpV, lossV, D_x, D_G_z1,
                 lastLog, fileV, nanSeen, histV>>

StepG ==
  /\ pc = "stepG"
  /\ paramsG' = AdamStep(paramsG)
  /\ lastAppliedG' = gradG
  /\ phases' = Append(phases, "stepG")
  /\ pc' = NextPc(pc)
  /\ UNCHANGED <<envV, loopV, startV, paramsD, gradD, gradG, lastAppliedD,
                 appliedKindsD, tmpV, lossV, proxV, fileV, nanSeen, gFwd,
                 fakeScores, snapBatches>>

\* ------------------------------------------------- logging, snapshots, loop
\* the for-loop moves to the next batch, or leaves the inner loop
AdvanceBatch ==
  /\ i' = i + 1
  /\ epoch' = epoch
  /\ pc' = AfterBatch
  /\ phases' = <<>>
  /\ gFwd' = 0
  /\ fakeScores' = <<>>

\* variant: the exception of a write is caught and the script goes on
WriteRaisesSwallowed(name, next) ==
  /\ failedWrite' = name
  /\ pc' = next
  /\ files' = files

\* an exception raised by a write propagates: nothing catches it
WriteRaises(name, next) ==
  /\ failedWrite' = name
  /\ pc' = "error"
  /\ files' = files

LogBatch ==
  /\ pc = "log"
  /\ lastLog' = [epoch |-> epoch, batch |-> i, z1 |-> D_G_z1, z2 |-> D_G_z2]
  /\ IF SnapshotDue(i)
       THEN /\ pc' = "snapReal"
            /\ UNCHANGED <<loopV, phases, gFwd, fakeScores>>
       ELSE AdvanceBatch
  /\ UNCHANGED <<envV, startV, netV, tmpV, lossV, D_x, D_G_z1, D_G_z2, fileV,
                 nanSeen, snapBatches>>

\* vutils.save_image(real_cpu[:64], '%s/real_samples.png' % opt.outf)
SnapReal ==
  /\ pc = "snapReal"
  /\ \E ok \in BOOLEAN :
       IF ok
         THEN /\ files' = WriteFile(files, RealSamplesName(epoch, i),
                                    Content("real", 0, 0))
              /\ failedWrite' = failedWrite
              /\ pc' = "snapFake"
         ELSE WriteRaises("real_samples", "snapFake")
  /\ UNCHANGED <<envV, loopV, startV, netV, tmpV, lossV, proxV, nanSeen,
                 histV>>

\* variant: the snapshot uses the batch's training noise
SnapshotInputFresh == noise

\* the latent input of the snapshot's generator pass
SnapshotInput == fixed_noise

\* fake = netG(fixed_noise); vutils.save_image(fake.detach(), ...)
SnapFake ==
  /\ pc = "snapFake"
  /\ fake' = NetG(SnapshotInput)
  /\ \E ok \in BOOLEAN :
       IF ok
         THEN /\ files' = WriteFile(files, FakeSamplesName(epoch, i),
                                    Content("fake", Detach(fake').gver,
                                            Detach(fake').noise))
              /\ failedWrite' = failedWrite
              /\ snapBatches' = snapBatches \cup {i}
              /\ AdvanceBatch
         ELSE /\ WriteRaises("fake_samples", AfterBatch)
              /\ UNCHANGED <<loopV, histV>>
  /\ UNCHANGED <<envV, startV, netV, noise, label, output, lossV, proxV,
                 nanSeen>>

\* torch.save(netG.state_dict(), '%s/netG_epoch_%d.pth' % (opt.outf, epoch))
CkptG ==
  /\ pc = "ckptG"
  /\ \E ok \in BOOLEAN :
       IF ok
         THEN /\ files' = WriteFile(files, CkptName("netG", epoch),
                                    Content("netG", paramsG, 0))
              /\ failedWrite' = failedWrite
              /\ pc' = "ckptD"
         ELSE WriteRaises("netG", "ckptD")
  /\ UNCHANGED <<envV, loopV, startV, netV, tmpV, lossV, proxV, nanSeen,
                 histV>>

\* torch.save(netD.state_dict(), '%s/netD_epoch_%d.pth' % (opt.outf, epoch))
CkptD ==
  /\ pc = "ckptD"
  /\ \E ok \in BOOLEAN :
       IF ok
         THEN /\ files' = WriteFile(files, CkptName("netD", epoch),
                                    Content("netD", paramsD, 0))
              /\ failedWrite' = failedWrite
              /\ epoch' = epoch + 1
              /\ i' = 0
              /\ snapBatches' = {}
              /\ pc' = EpochEntry(epoch + 1)
         ELSE /\ WriteRaises("netD", EpochEntry(epoch + 1))
              /\ UNCHANGED <<loopV, snapBatches>>
  /\ UNCHANGED <<envV, startV, netV, tmpV, lossV, proxV, nanSeen, phases,
                 gFwd, fakeScores>>

Next ==
  \/ Makedirs \/ LoggingSetup \/ Setup
  \/ ZeroD \/ RealBwd \/ Dx \/ GenFwd \/ FakeBwd \/ DGz1 \/ SumD \/ StepD
  \/ ZeroG \/ GenBwd \/ DGz2 \/ StepG
  \/ LogBatch \/ SnapReal \/ SnapFake \/ CkptG \/ CkptD

Spec == Init /\ [][Next]_vars


\* ================================================================ properties
Range(s) == {s[k] : k \in DOMAIN s}
IsPrefix(s, t) == Len(s) <= Len(t) /\ \A k \in 1..Len(s) : s[k] = t[k]
Done(ph) == IF ph \in Range(phases) THEN 1 ELSE 0
CanonicalPhases ==
  <<"zeroD", "realBwd", "fakeBwd", "stepD", "zeroG", "genBwd", "stepG">>

\* the generated batch the current training step works on
TrainFake ==
  [src |-> "gen", noise |-> noise, gver |-> paramsG - Done("stepG"),
   attached |-> TRUE]
TrainFakeDetached == [TrainFake EXCEPT !.attached = FALSE]

KindFiles(k) == {n \in DOMAIN files : files[n].kind = k}

\* C1: in every batch the seven phases run once each in the fixed order
\* zeroD, realBwd, fakeBwd, stepD, zeroG, genBwd, stepG; each optimizer has
\* stepped exactly once per finished batch; the loop moves to the next batch
\* only after the generator optimizer step.
C1_PhaseOrder ==
  /\ [](/\ IsPrefix(phases, CanonicalPhases)
        /\ paramsD = epoch * nbatches + i + Done("stepD")
        /\ paramsG = epoch * nbatches + i + Done("stepG"))
  /\ [][(i' = i + 1) => (phases = CanonicalPhases /\ phases' = <<>>)]_vars
  /\ [][(phases' # phases /\ phases' # <<>>) =>
          (Len(phases') = Len(phases) + 1 /\ i' = i /\ epoch' = epoch)]_vars

C1_Witness ==
  /\ pc = "log" /\ epoch = 1 /\ i = 1
  /\ phases = CanonicalPhases

\* C2: the discriminator's fake pass leaves generator gradients and
\* parameters untouched; generator gradients change only at the generator's
\* zero_grad and backward pass, generator parameters only at optimizerG.step.
C2_Detachment ==
  /\ [][pc = "fakeBwd" => (gradG' = gradG /\ paramsG' = paramsG)]_vars
  /\ [][gradG' # gradG => pc \in {"zeroG", "genBwd"}]_vars
  /\ [][paramsG' # paramsG => pc = "stepG"]_vars
  /\ [](pc = "stepG" => gradG = {Tok("gen")})

C2_Witness ==
  /\ pc = "DGz1" /\ epoch = 0 /\ i = 1
  /\ output.input = TrainFakeDetached
  /\ gradG = {[loss |-> "gen", epoch |-> 0, batch |-> 0]}

\* C3: optimizerD.step applies exactly the current batch's real and detached
\* fake gradients; the gradient the generator's backward pass leaves on netD
\* is never applied; netD parameters change only at optimizerD.step.
C3_DiscriminatorGradient ==
  /\ [][pc = "stepD" => gradD = {Tok("real"), Tok("fake")}]_vars
  /\ [](Done("stepD") = 1 => lastAppliedD = {Tok("real"), Tok("fake")})
  /\ [](appliedKindsD \subseteq {"real", "fake"})
  /\ [](pc = "DGz2" => Tok("gen") \in gradD)
  /\ [][paramsD' # paramsD => pc = "stepD"]_vars

C3_Witness ==
  /\ pc = "zeroG" /\ epoch = 1 /\ i = 0
  /\ lastAppliedD = {[loss |-> "real", epoch |-> 1, batch |-> 0],
                     [loss |-> "fake", epoch |-> 1, batch |-> 0]}
  /\ paramsD = nbatches + 1 /\ nbatches > 1

\* C4: checkpoints are written only after the last batch of an epoch, one
\* per network and epoch, keyed by the epoch number, and are never changed
\* afterwards; all earlier epochs' checkpoints exist at every point of a
\* later epoch, and a completed run of niter epochs leaves niter of each.
C4_Checkpoints ==
  /\ [](\A e \in 0..(epoch - 1) :
          /\ CkptName("netG", e) \in DOMAIN files
          /\ files[CkptName("netG", e)] =
               [kind |-> "netG", epoch |-> e, batch |-> nbatches,
                ver |-> (e + 1) * nbatches, noise |-> 0]
          /\ CkptName("netD", e) \in DOMAIN files
          /\ files[CkptName("netD", e)] =
               [kind |-> "netD", epoch |-> e, batch |-> nbatches,
                ver |-> (e + 1) * nbatches, noise |-> 0])
  /\ [](pc = "done" => /\ Cardinality(KindFiles("netG")) = niter
                       /\ Cardinality(KindFiles("netD")) = niter)
  /\ [](Cardinality(KindFiles("netD")) = epoch)
  /\ [][\A n \in DOMAIN files :
          files[n].kind \in {"netG", "netD"} =>
            (n \in DOMAIN files' /\ files'[n] = files[n])]_vars
  /\ [][(\E n \in DOMAIN files' :
           /\ files'[n].kind \in {"netG", "netD"}
           /\ n \notin DOMAIN files)
        => (pc \in {"ckptG", "ckptD"} /\ i = nbatches /\ phases = <<>>)]_vars

C4_Witness ==
  /\ pc = "done" /\ niter = 2 /\ nbatches = SnapshotInterval + 1
  /\ Cardinality(KindFiles("netG")) = 2
  /\ Cardinality(KindFiles("netD")) = 2

\* last batch index of an epoch of b batches at which a snapshot is due
LastSnapBatch(b) == ((b - 1) \div SnapshotInterval) * SnapshotInterval

\* C5 (as stated): no snapshot overwrites an image file written by an
\* earlier snapshot.
C5_SnapshotsNeverOverwrite ==
  [][\A n \in DOMAIN files :
       files[n].kind \in {"real", "fake"} => files'[n] = files[n]]_vars

\* C5 (amended): the real grid always goes to the one name real_samples.png
\* and the generated grid to a name keyed by the epoch alone; the file of an
\* epoch holds that epoch's last snapshot and is never rewritten by another
\* epoch; there is one generated-grid file per epoch that had a snapshot.
C5_SnapshotFiles ==
  /\ [](\A e \in 0..(epoch - 1) :
          nbatches >= 1 =>
            /\ FakeSamplesName(e, 0) \in DOMAIN files
            /\ files[FakeSamplesName(e, 0)].epoch = e
            /\ files[FakeSamplesName(e, 0)].batch = LastSnapBatch(nbatches))
  /\ [](Cardinality(KindFiles("real")) <= 1)
  /\ [](Cardinality(KindFiles("fake")) =
          (IF nbatches = 0 THEN 0 ELSE epoch)
          + (IF snapBatches # {} THEN 1 ELSE 0))
  /\ [][\A n \in DOMAIN files :
          (files[n].kind = "fake" /\ files'[n] # files[n]) =>
            (files[n].epoch = epoch /\ files'[n].epoch = epoch
             /\ files'[n].batch > files[n].batch)]_vars
  /\ [][\A n \in DOMAIN files :
          (files[n].kind = "real" /\ pc = "snapReal" /\ pc' = "snapFake") =>
            files'[n] # files[n]]_vars

C5_Witness ==
  /\ pc = "done" /\ epoch = 2 /\ nbatches = MaxBatches
  /\ files[FakeSamplesName(0, 0)].batch = LastSnapBatch(MaxBatches)
  /\ files[FakeSamplesName(0, 0)].epoch = 0
  /\ files[RealSamplesName(0, 0)].epoch = 1

\* C6: a snapshot is taken exactly at the batches with i mod 100 = 0, after
\* that batch's generator optimizer step; an epoch of B >= 1 batches leaves
\* a generated-grid file and takes ceil(B / 100) snapshots.
C6_SnapshotSchedule ==
  /\ [](snapBatches = {b \in 0..(i - 1) : b % 100 = 0})
  /\ [](pc \in {"snapReal", "snapFake"} =>
          (i % 100 = 0 /\ phases = CanonicalPhases))
  /\ [](pc = "ckptG" =>
          /\ Cardinality(snapBatches) = (nbatches + 99) \div 100
          /\ (nbatches >= 1 =>
                /\ FakeSamplesName(epoch, 0) \in DOMAIN files
                /\ files[FakeSamplesName(epoch, 0)].epoch = epoch))

C6_Witness ==
  /\ pc = "ckptG" /\ epoch = 1 /\ nbatches = MaxBatches
  /\ Cardinality(snapBatches) = 3

\* C7: fixed_noise is set once, before the first training step, and never
\* changes afterwards; every snapshot's generated grid comes from it.
C7_FixedNoise ==
  /\ [][fixed_noise' # fixed_noise => (pc = "setup" /\ fixed_noise = 0)]_vars
  /\ [](pc \notin {"makedirs", "logging", "setup", "error"} =>
          fixed_noise \in Noise)
  /\ [](\A n \in KindFiles("fake") : files[n].noise = fixed_noise)
  /\ [][pc = "snapFake" =>
          (fake'.noise = fixed_noise /\ fake'.gver = paramsG)]_vars

C7_Witness ==
  /\ pc = "done" /\ niter = 2
  /\ noise \in Noise /\ noise # fixed_noise
  /\ Cardinality(KindFiles("fake")) = 2
  /\ \A n \in KindFiles("fake") : files[n].noise = fixed_noise

\* statements that train, step an optimizer or write an artifact
WorkPcs ==
  {"zeroD", "realBwd", "genFwd", "fakeBwd", "stepD", "zeroG", "genBwd",
   "stepG", "snapReal", "snapFake", "ckptG", "ckptD"}

C9_DoubleScore ==
  /\ [](gFwd <= 1 /\ Len(fakeScores) <= 2)
  /\ [](pc \in {"DGz2", "stepG", "log", "snapReal", "snapFake"} =>
          /\ gFwd = 1
          /\ fake = TrainFake
          /\ fakeScores =
               <<[input |-> TrainFakeDetached, dver |-> paramsD - 1],
                 [input |-> TrainFake, dver |-> paramsD]>>
          /\ errD_fake.out = fakeScores[1]
          /\ errG.out = fakeScores[2]
          /\ gradG = {Tok("gen")})
  /\ [](Done("stepG") = 1 => lastAppliedG = {Tok("gen")})

C9_Witness ==
  /\ pc = "log" /\ epoch = 0 /\ i = 1
  /\ Len(fakeScores) = 2
  /\ fakeScores[1].input.attached = FALSE
  /\ fakeScores[2].input.attached = TRUE
  /\ fakeScores[2].dver = fakeScores[1].dver + 1
  /\ fakeScores[2].input.noise = fakeScores[1].input.noise

\* C10 (as stated): the second logged fake proxy reflects the generator
\* after its update for that batch.
C10_SecondProxyAfterGeneratorUpdate ==
  pc = "log" => D_G_z2.of.input.gver = paramsG

\* C10 (amended): both proxies score the batch generated before the
\* generator update; the first with netD before optimizerD.step, the second
\* with netD after it and before optimizerG.step; computing a proxy changes
\* no parameter, gradient or loss.
C10_ProxyTiming ==
  /\ [](pc = "log" =>
          /\ D_G_z1.of = [input |-> TrainFakeDetached, dver |-> paramsD - 1]
          /\ D_G_z2.of = [input |-> TrainFake, dver |-> paramsD]
          /\ D_G_z2.of.input.gver = paramsG - 1
          /\ D_x.of = [input |-> RealBatch, dver |-> paramsD - 1])
  /\ [][D_G_z1' # D_G_z1 => (Done("fakeBwd") = 1 /\ Done("stepD") = 0)]_vars
  /\ [][D_G_z2' # D_G_z2 => (Done("stepD") = 1 /\ Done("stepG") = 0)]_vars
  /\ [][(pc \in {"Dx", "DGz1", "DGz2"}) =>
          (UNCHANGED <<netV, lossV, tmpV>>)]_vars
  /\ [][lastLog' # lastLog =>
          (lastLog'.z1 = D_G_z1 /\ lastLog'.z2 = D_G_z2)]_vars

C10_Witness ==
  /\ pc = "log" /\ epoch = 0 /\ i = 1
  /\ D_G_z2.of.dver = D_G_z1.of.dver + 1
  /\ D_G_z2.of.input.gver = paramsG - 1
  /\ D_G_z1.of.input.gver = paramsG - 1
  /\ lastLog.batch = 0

====
